---------------------------- MODULE Spec2Model ----------------------------
(***************************************************************************)
(* Habit grid ingestion (src/Code.js): doPost, its image normalization,    *)
(* findFirstDateMatch and updateSheet over the "Weekly View" grid.         *)
(*                                                                         *)
(* JavaScript values are tagged records [t |-> <class>, v |-> <payload>].  *)
(* A string is a sequence of one-token strings.  A Date is a count of      *)
(* hours since local midnight of 01/01/2025.                               *)
(***************************************************************************)
EXTENDS Integers, Sequences, FiniteSets, TLC

VARIABLES table, habits, pc, call, ret

vars == <<table, habits, pc, call, ret>>

(***************************************************************************)
(* Bounds of the explored inputs.                                          *)
(***************************************************************************)
MaxStrLen == 4
MaxEntries == 2
MaxValuesLen == 9
MaxGridSide == 2

(***************************************************************************)
(* JavaScript values.                                                      *)
(***************************************************************************)
Undef == [t |-> "undefined", v |-> 0]
Null == [t |-> "null", v |-> 0]
NaN == [t |-> "NaN", v |-> 0]
Num(n) == [t |-> "number", v |-> n]
Str(s) == [t |-> "string", v |-> s]
Arr(a) == [t |-> "Array", v |-> a]
Obj(f) == [t |-> "Object", v |-> f]
DateV(ts) == [t |-> "Date", v |-> ts, valid |-> TRUE]
EmptyStr == Str(<<>>)

\* value.key for an Object (a key the object lacks reads undefined)
Get(o, k) ==
  IF o.t = "Object" /\ k \in DOMAIN o.v THEN o.v[k] ELSE Undef

\* JavaScript truthiness, as used by ||, ! and if
Truthy(x) ==
  CASE x.t = "undefined" -> FALSE
    [] x.t = "null" -> FALSE
    [] x.t = "NaN" -> FALSE
    [] x.t = "number" -> x.v # 0
    [] x.t = "string" -> x.v # <<>>
    [] OTHER -> TRUE

\* a || b
Or(a, b) == IF Truthy(a) THEN a ELSE b

\* typeof value
TypeOf(x) ==
  CASE x.t \in {"undefined", "number", "string"} -> x.t
    [] x.t = "NaN" -> "number"
    [] OTHER -> "object"

getType(value) ==
  IF TypeOf(value) # "object" THEN TypeOf(value)
  ELSE IF value = Null THEN "null"
  ELSE value.t

(***************************************************************************)
(* Image payload normalization, doPost lines 204-225.                      *)
(* Tokens of an image string: "data:image/", ";base64," (literal pieces of *)
(* the data-URI prefix), "A" (a character of [a-zA-Z0-9.+-]), "=" (a       *)
(* character outside that class) and " " (whitespace).                     *)
(***************************************************************************)
SubtypeChars == {"A"}
ImageTokens == {"data:image/", ";base64,", "A", "=", " "}

RECURSIVE SubtypeRun(_, _)
\* the index after the longest run of subtype characters starting at i
SubtypeRun(s, i) ==
  IF i <= Len(s) /\ s[i] \in SubtypeChars THEN SubtypeRun(s, i + 1) ELSE i

\* s.replace(/^data:image\/[a-zA-Z0-9.+-]+;base64,/, '')
StripDataUri(s) ==
  IF Len(s) >= 1 /\ s[1] = "data:image/"
  THEN LET j == SubtypeRun(s, 2)
       IN IF j > 2 /\ j <= Len(s) /\ s[j] = ";base64,"
          THEN SubSeq(s, j + 1, Len(s))
          ELSE s
  ELSE s

RECURSIVE TrimLeft(_)
TrimLeft(s) ==
  IF s # <<>> /\ Head(s) = " " THEN TrimLeft(Tail(s)) ELSE s

RECURSIVE TrimRight(_)
TrimRight(s) ==
  IF s # <<>> /\ s[Len(s)] = " " THEN TrimRight(SubSeq(s, 1, Len(s) - 1)) ELSE s

\* s.trim()
Trim(s) == TrimRight(TrimLeft(s))

\* lines 212-216: an object is replaced by its base64, else its data, else null
UnwrapImageNoData(img) ==
  IF TypeOf(img) = "object" /\ img # Null
  THEN Or(Get(img, "base64"), Null)
  ELSE img

UnwrapImage(img) ==
  IF TypeOf(img) = "object" /\ img # Null
  THEN Or(Or(Get(img, "base64"), Get(img, "data")), Null)
  ELSE img

\* lines 223-225
NormalizeString(s) == Trim(StripDataUri(s))

(***************************************************************************)
(* Dates.  parseMmDdYyyy (lines 137-140) splits on "/" and converts each   *)
(* piece with Number; new Date(yyyy, mm - 1, dd) is local midnight of that *)
(* day, with month and day overflow carried, or an Invalid Date when a     *)
(* piece is NaN.  Years are the 365-day years 2025-2027.                   *)
(***************************************************************************)
\* EpochYear is the year hour 0 of the model's clock begins.
HoursPerDay == 24
DaysPerYear == 365
MonthsPerYear == 12
EpochYear == 2025
Digits == {"0", "1", "2", "3", "4", "5", "6", "7", "8", "9"}
DigitVal(d) ==
  CASE d = "0" -> 0 [] d = "1" -> 1 [] d = "2" -> 2 [] d = "3" -> 3
    [] d = "4" -> 4 [] d = "5" -> 5 [] d = "6" -> 6 [] d = "7" -> 7
    [] d = "8" -> 8 [] d = "9" -> 9
DaysBeforeMonth == <<0, 31, 59, 90, 120, 151, 181, 212, 243, 273, 304, 334>>
InvalidDate == [t |-> "Date", v |-> 0, valid |-> FALSE]

RECURSIVE SplitFrom(_, _, _)
\* the pieces of s from index i on, cur being the piece read so far
SplitFrom(s, i, cur) ==
  IF i > Len(s) THEN <<cur>>
  ELSE IF s[i] = "/" THEN <<cur>> \o SplitFrom(s, i + 1, <<>>)
  ELSE SplitFrom(s, i + 1, Append(cur, s[i]))

\* str.split('/')
Split(s) == SplitFrom(s, 1, <<>>)

RECURSIVE DigitsValue(_, _)
DigitsValue(s, acc) ==
  IF s = <<>> THEN acc ELSE DigitsValue(Tail(s), acc * 10 + DigitVal(Head(s)))

\* Number(piece): '' is 0, a run of digits its value, anything else NaN
ToNumber(piece) ==
  IF \A i \in 1..Len(piece) : piece[i] \in Digits
  THEN Num(DigitsValue(piece, 0))
  ELSE NaN

\* new Date(yyyy, monthIndex, dd)
NewDate(yyyy, monthIndex, dd) ==
  IF yyyy = NaN \/ monthIndex = NaN \/ dd = NaN THEN InvalidDate
  ELSE LET y == yyyy.v + (monthIndex.v \div MonthsPerYear)
           m == monthIndex.v % MonthsPerYear
           days == (y - EpochYear) * DaysPerYear + DaysBeforeMonth[m + 1] + (dd.v - 1)
       IN DateV(days * HoursPerDay)

\* const [mm, dd, yyyy] = str.split('/').map(Number) : a piece the split
\* does not have is undefined, and undefined - 1 is NaN
parseMmDdYyyy(str) ==
  LET parts == Split(str)
      piece(i) == IF i <= Len(parts) THEN ToNumber(parts[i]) ELSE NaN
      mm == piece(1)
  IN NewDate(piece(3), IF mm = NaN THEN NaN ELSE Num(mm.v - 1), piece(2))

\* d.setHours(0, 0, 0, 0)
SetHoursZero(d) ==
  IF d = InvalidDate THEN d ELSE DateV(d.v - (d.v % HoursPerDay))

\* a.getTime() === b.getTime() : NaN equals nothing
SameTime(a, b) == a # InvalidDate /\ b # InvalidDate /\ a.v = b.v

(***************************************************************************)
(* findFirstDateMatch, lines 145-167, over the grid getValues() returns.   *)
(***************************************************************************)
IsDateMatch(grid, r, c, targetDate) ==
  /\ grid[r][c].t = "Date"
  /\ SameTime(SetHoursZero(grid[r][c]), SetHoursZero(targetDate))

\* the cell reached first by the loops: rows outside, columns inside
ScansBefore(a, b) == a[1] < b[1] \/ (a[1] = b[1] /\ a[2] <= b[2])

ScansBeforeColumnMajor(a, b) == a[2] < b[2] \/ (a[2] = b[2] /\ a[1] <= b[1])

FirstDateMatchColumnMajor(grid, targetDate) ==
  LET hits == {p \in {<<r, c>> : r \in 1..Len(grid), c \in 1..Len(grid[1])} :
                 IsDateMatch(grid, p[1], p[2], targetDate)}
  IN IF hits = {} THEN Null
     ELSE LET p == CHOOSE q \in hits : \A o \in hits : ScansBeforeColumnMajor(q, o)
          IN Obj([row |-> p[1], column |-> p[2]])

findFirstDateMatch(grid, targetDate) ==
  LET hits == {p \in {<<r, c>> : r \in 1..Len(grid), c \in 1..Len(grid[1])} :
                 IsDateMatch(grid, p[1], p[2], targetDate)}
  IN IF hits = {} THEN Null
     ELSE LET p == CHOOSE q \in hits : \A o \in hits : ScansBefore(q, o)
          IN Obj([row |-> p[1], column |-> p[2]])

(***************************************************************************)
(* The text finder of lines 446-447: createTextFinder(text).findNext() on  *)
(* a one-column range returns the first cell, top to bottom, whose text    *)
(* contains the search text; neither matchCase nor matchEntireCell is set, *)
(* so the search ignores case and accepts a partial match.                 *)
(***************************************************************************)
Lower(ch) == CASE ch = "A" -> "a" [] ch = "B" -> "b" [] OTHER -> ch

LowerSeq(s) == [i \in 1..Len(s) |-> Lower(s[i])]

\* the text a cell shows: a number or a date shows no letter
CellText(cell) ==
  CASE cell.t = "string" -> cell.v
    [] OTHER -> <<"#">>

Contains(hay, needle) ==
  \E i \in 1..(Len(hay) - Len(needle) + 1) :
     SubSeq(hay, i, i + Len(needle) - 1) = needle

FinderMatches(cell, text) == Contains(LowerSeq(CellText(cell)), LowerSeq(text))

\* the row of the first matching cell of column 1 in rows first..last, or 0
FindNext(grid, first, last, text) ==
  LET hits == {r \in first..last : FinderMatches(grid[r][1], text)}
  IN IF hits = {} THEN 0 ELSE CHOOSE r \in hits : \A o \in hits : r <= o

(***************************************************************************)
(* updateSheet, lines 413-461.                                             *)
(***************************************************************************)
WindowWidth == 7
WindowFirstColumn == 3
SHEET_NAME_WEEKLY == "Weekly View"
NoSheet == <<>>

NoErr == [name |-> "", msg |-> "", arg |-> ""]
Err(name, msg, arg) == [name |-> name, msg |-> msg, arg |-> arg]
NoResp == [pre |-> "", text |-> "", n |-> 0, week |-> Undef, sheet |-> "", err |-> NoErr]
NotFoundResp(week, sheet) ==
  [pre |-> "Error: ", text |-> "Could not find week starting", n |-> 0,
   week |-> week, sheet |-> sheet, err |-> NoErr]
SuccessResp(n, week) ==
  [pre |-> "Success!", text |-> "Updated habits for week of", n |-> n,
   week |-> week, sheet |-> "", err |-> NoErr]
\* 'Error: ' + error.toString()
CaughtResp(err) ==
  [pre |-> "Error: ", text |-> "", n |-> 0, week |-> Undef, sheet |-> "", err |-> err]

\* lines 451-453 on an array: slice(0, 7), then push(null) up to length 7
ClampNoSlice(a) ==
  IF Len(a) >= WindowWidth THEN a
  ELSE a \o [i \in 1..(WindowWidth - Len(a)) |-> Null]

Clamp(a) ==
  IF Len(a) > WindowWidth THEN SubSeq(a, 1, WindowWidth)
  ELSE a \o [i \in 1..(WindowWidth - Len(a)) |-> Null]

\* what a cell holds after setValues stored x: null leaves the cell empty
Stored(x) == IF x = Null THEN EmptyStr ELSE x

\* sheet.getRange(r, 3, 1, 7).setValues([rowValues])
SetWindow(grid, r, rowValues) ==
  [grid EXCEPT ![r] =
     [c \in 1..Len(grid[r]) |->
        IF c >= WindowFirstColumn /\ c < WindowFirstColumn + WindowWidth
        THEN Stored(rowValues[c - WindowFirstColumn + 1])
        ELSE grid[r][c]]]

\* one call of the forEach callback, lines 445-458, on the running state
ForEachStep(st, item, startRow) ==
  IF item = Null \/ item = Undef
  THEN [st EXCEPT !.thrown = TRUE,
                  !.err = Err("TypeError", "Cannot read properties of", item.t)]
  ELSE LET r == FindNext(st.table, startRow, Len(st.table), Get(item, "habit").v)
           given == Get(item, "values")
           rowValues == Or(given, Arr(<<>>))
       IN IF r = 0 THEN st
          ELSE IF rowValues.t # "Array"
          THEN [st EXCEPT !.thrown = TRUE,
                          !.err = Err("TypeError", "rowValues is not a row of cells", getType(rowValues))]
          ELSE [st EXCEPT !.table = SetWindow(st.table, r, Clamp(rowValues.v)),
                          !.writes = Append(st.writes, [row |-> r, values |-> Clamp(rowValues.v)]),
                          !.updates = st.updates + 1]

RECURSIVE ForEach(_, _, _, _)
\* data.data.forEach(...) from item i on: a throw ends the loop
ForEach(items, i, st, startRow) ==
  IF i > Len(items) \/ st.thrown THEN st
  ELSE ForEach(items, i + 1, ForEachStep(st, items[i], startRow), startRow)

\* line 445: data.data, read as it is
ItemsOrEmpty(data) == Or(Get(data, "data"), Arr(<<>>))

ItemsOf(data) == Get(data, "data")

Thrown(grid, err) ==
  [thrown |-> TRUE, err |-> err, result |-> NoResp, table |-> grid,
   writes |-> <<>>, updates |-> 0]

updateSheet(grid, data) ==
  IF grid = NoSheet THEN Thrown(grid, Err("Error", "Sheet not found.", SHEET_NAME_WEEKLY))
  ELSE IF ~Truthy(data)
  THEN Thrown(grid, Err("Error", "updateSheet error: data object is null/undefined.", ""))
  ELSE IF ~Truthy(Get(data, "week_start_date"))
  THEN Thrown(grid, Err("Error", "updateSheet error: week_start_date is missing.", ""))
  ELSE IF Get(data, "week_start_date").t # "string"
  THEN Thrown(grid, Err("TypeError", "str.split is not a function", ""))
  ELSE LET week == Get(data, "week_start_date")
           targetDate == parseMmDdYyyy(week.v)
           match == findFirstDateMatch(grid, targetDate)
           items == ItemsOf(data)
       IN \* line 428: toISOString of an Invalid Date throws
          IF targetDate = InvalidDate
          THEN Thrown(grid, Err("RangeError", "Invalid time value", ""))
          ELSE IF match = Null
          THEN [thrown |-> FALSE, err |-> NoErr,
                result |-> NotFoundResp(week, SHEET_NAME_WEEKLY),
                table |-> grid, writes |-> <<>>, updates |-> 0]
          ELSE IF items.t # "Array"
          THEN Thrown(grid, Err("TypeError", "data.data.forEach is not callable", getType(items)))
          ELSE LET st == ForEach(items.v, 1,
                                 [table |-> grid, writes |-> <<>>, updates |-> 0,
                                  thrown |-> FALSE, err |-> NoErr],
                                 match.v.row)
               IN [thrown |-> st.thrown, err |-> st.err,
                   result |-> IF st.thrown THEN NoResp ELSE SuccessResp(st.updates, week),
                   table |-> st.table, writes |-> st.writes, updates |-> st.updates]

(***************************************************************************)
(* doPost, lines 192-250.  Every log_ call appends a row to the Log sheet  *)
(* through the spreadsheet service and may throw; env.logFault names the   *)
(* first call of the try block that does, env.catchFault says whether the  *)
(* call in the catch block does.  env.gemini is what callGemini does.      *)
(***************************************************************************)
LogSites == {"start", "rawType", "keys", "dump", "norm", "habits",
             "analysisJson", "analysisWeek", "result"}

LogErr(site) == Err("Exception", "Service error: Spreadsheets", site)

\* lines 207-225: the image of the request body, normalized, or the error thrown.
\* JSON.stringify(undefined) is undefined, whose substring cannot be read.
NormalizeImage(img) ==
  LET base64Image == UnwrapImage(img)
      imgRefType == getType(base64Image)
  IN IF imgRefType # "string"
     THEN IF img = Undef
          THEN [ok |-> FALSE, value |-> <<>>,
                err |-> Err("TypeError", "Cannot read properties of undefined (reading 'substring')", "")]
          ELSE [ok |-> FALSE, value |-> <<>>,
                err |-> Err("Error", "base64Image has wrong type: instead of string", imgRefType)]
     ELSE [ok |-> TRUE, value |-> NormalizeString(base64Image.v), err |-> NoErr]

\* getHabitMetadata, lines 259-289: the error it throws, or NoErr
HabitMetadataErr(hab) ==
  IF hab = NoSheet THEN Err("Error", "Sheet not found.", "Habit List")
  ELSE IF Len(hab) < 2 THEN Err("Error", "Habit List sheet has no data.", "")
  ELSE NoErr

\* callGemini, lines 384-405: the error it throws, or NoErr
GeminiErr(gem) ==
  CASE gem.kind = "apiError" -> Err("Error", "Gemini API Error: ", "upstream message")
    [] gem.kind = "noCandidates" -> Err("TypeError", "Cannot read properties of undefined", "candidates")
    [] gem.kind = "unparseable" -> Err("SyntaxError", "Unexpected token", "")
    [] OTHER -> NoErr

\* the catch block, lines 246-249
Caught(env, err, logged, grid, called, writes) ==
  IF env.catchFault
  THEN [propagated |-> TRUE, resp |-> NoResp, err |-> LogErr("error"), table |-> grid,
        log |-> logged, geminiCalled |-> called, writes |-> writes, analysis |-> Undef]
  ELSE [propagated |-> FALSE, resp |-> CaughtResp(err), err |-> err, table |-> grid,
        log |-> Append(logged, "doPost:ERROR"), geminiCalled |-> called, writes |-> writes,
        analysis |-> Undef]

\* lines 232-244, once the image is normalized
Pipeline(env, grid, hab, logged) ==
  LET l5 == Append(logged, "doPost:NORM TYPE")
      l6 == Append(l5, "doPost:habitsArray length")
      l8 == l6 \o <<"doPost:analysis JSON", "doPost:analysis.week_start_date">>
      upd == updateSheet(grid, env.gemini.analysis)
  IN \* the analysis field is the result handed to updateSheet, once it is called
     IF env.logFault = "norm" THEN Caught(env, LogErr("norm"), logged, grid, FALSE, <<>>)
     ELSE IF HabitMetadataErr(hab) # NoErr
     THEN Caught(env, HabitMetadataErr(hab), l5, grid, FALSE, <<>>)
     ELSE IF env.logFault = "habits" THEN Caught(env, LogErr("habits"), l5, grid, FALSE, <<>>)
     ELSE IF GeminiErr(env.gemini) # NoErr
     THEN Caught(env, GeminiErr(env.gemini), l6, grid, TRUE, <<>>)
     ELSE IF env.logFault = "analysisJson"
     THEN Caught(env, LogErr("analysisJson"), l6, grid, TRUE, <<>>)
     ELSE IF env.logFault = "analysisWeek"
     THEN Caught(env, LogErr("analysisWeek"), Append(l6, "doPost:analysis JSON"), grid, TRUE, <<>>)
     ELSE IF upd.thrown
     THEN [Caught(env, upd.err, l8, upd.table, TRUE, upd.writes)
             EXCEPT !.analysis = env.gemini.analysis]
     ELSE IF env.logFault = "result"
     THEN [Caught(env, LogErr("result"), l8, upd.table, TRUE, upd.writes)
             EXCEPT !.analysis = env.gemini.analysis]
     ELSE [propagated |-> FALSE, resp |-> upd.result, err |-> NoErr, table |-> upd.table,
           log |-> Append(l8, "doPost:updateSheet result"), geminiCalled |-> TRUE,
           writes |-> upd.writes, analysis |-> env.gemini.analysis]

doPost(e, env, grid, hab) ==
  LET l1 == <<"doPost:start">>
      postData == e.body
      img == Get(postData, "image")
      l2 == Append(l1, "doPost:RAW TYPE")
      isObject == TypeOf(img) = "object" /\ img # Null
      l3 == IF isObject THEN Append(l2, "doPost:image keys") ELSE l2
      norm == NormalizeImage(img)
  IN IF env.logFault = "start" THEN Caught(env, LogErr("start"), <<>>, grid, FALSE, <<>>)
     ELSE IF e.kind = "none"
     THEN Caught(env, Err("Error", "No data received", ""), l1, grid, FALSE, <<>>)
     ELSE IF e.kind = "badjson"
     THEN Caught(env, Err("SyntaxError", "Unexpected token", ""), l1, grid, FALSE, <<>>)
     ELSE IF postData = Null \/ postData = Undef
     THEN Caught(env, Err("TypeError", "Cannot read properties of", postData.t), l1, grid, FALSE, <<>>)
     ELSE IF env.logFault = "rawType" THEN Caught(env, LogErr("rawType"), l1, grid, FALSE, <<>>)
     ELSE IF isObject /\ env.logFault = "keys"
     THEN Caught(env, LogErr("keys"), l2, grid, FALSE, <<>>)
     ELSE IF ~norm.ok
     THEN IF img # Undef /\ env.logFault = "dump"
          THEN Caught(env, LogErr("dump"), l3, grid, FALSE, <<>>)
          ELSE Caught(env, norm.err,
                      IF img = Undef THEN l3 ELSE Append(l3, "doPost:image payload dump"),
                      grid, FALSE, <<>>)
     ELSE Pipeline(env, grid, hab, l3)

(***************************************************************************)
(* Inputs.                                                                 *)
(***************************************************************************)
SeqsUpTo(S, n) == UNION {[1..k -> S] : k \in 0..n}

\* image strings: every token sequence up to MaxStrLen
ImageStrings == SeqsUpTo(ImageTokens, MaxStrLen)
DataUriImage == <<"data:image/", "A", ";base64,", "A", "=">>

\* week_start_date texts: 01/05/2026, 02/02/2026 and 12/28 (no year)
Week0105 == Str(<<"0", "1", "/", "0", "5", "/", "2", "0", "2", "6">>)
Week0202 == Str(<<"0", "2", "/", "0", "2", "/", "2", "0", "2", "6">>)
Week1228 == Str(<<"1", "2", "/", "2", "8">>)
Weeks == {Week0105, Week0202, Week1228}

\* a date cell: the day (yyyy, monthIndex, dd) at hour h
CellDate(yyyy, monthIndex, dd, h) ==
  DateV(NewDate(Num(yyyy), Num(monthIndex), Num(dd)).v + h)
Jan5Noon == CellDate(2026, 0, 5, 13)
Jan5Late == CellDate(2026, 0, 5, 23)
Jan6Midnight == CellDate(2026, 0, 6, 0)

\* habit names and row labels
NameA == <<"a">>
NameAB == <<"a", "b">>
NameUpperA == <<"A">>

\* rows of the weekly grid: label, date marker, then the 7-day window
OldWindow == [i \in 1..WindowWidth |-> Num(9)]
AnchorRow == <<EmptyStr, Jan5Noon>> \o OldWindow
LabelRow(name) == <<Str(name), EmptyStr>> \o OldWindow
RowKinds == {AnchorRow, LabelRow(NameA), LabelRow(NameAB), LabelRow(NameUpperA)}
NumRows == 3
WeeklyTables == [1..NumRows -> RowKinds]

\* the Habit List sheet: absent, header only, header and one habit
HabitSheets == {NoSheet, <<"Habit Name">>, <<"Habit Name", "a">>}

\* entries: values[i] is i, or null at every third place
Vals(n) == Arr([i \in 1..n |-> IF i % 3 = 0 THEN Null ELSE Num(i)])
Entry(name, values) == Obj([habit |-> Str(name), values |-> values])
EntryNoValues(name) == Obj([habit |-> Str(name)])
BadValues == Str(<<"1">>)
Entries ==
  {Null, Entry(NameA, BadValues), EntryNoValues(NameA), Entry(NameA, Vals(3)),
   Entry(NameAB, Vals(MaxValuesLen))}

Result(week, items) == Obj([week_start_date |-> week, data |-> Arr(items)])
ResultNoWeek(items) == Obj([data |-> Arr(items)])
ResultNoData(week) == Obj([week_start_date |-> week])

Results ==
  {Result(Week0105, items) : items \in SeqsUpTo(Entries, MaxEntries)}
    \cup {Result(w, items) : w \in Weeks, items \in SeqsUpTo(Entries, 1)}
    \cup {ResultNoWeek(items) : items \in {<<>>, <<Entry(NameA, Vals(3))>>}}
    \cup {ResultNoData(w) : w \in Weeks}
    \cup {Null}

\* one entry of every length
SingleEntryResults ==
  {Result(Week0105, <<Entry(NameAB, Vals(n))>>) : n \in 0..MaxValuesLen}
    \cup {Result(Week0105, <<EntryNoValues(NameAB)>>)}

\* request events
Images ==
  {Null, Num(5), Arr(<<Num(1)>>), Obj([other |-> Num(1)]), Obj([base64 |-> Num(5)]),
   Obj([base64 |-> EmptyStr]), EmptyStr, Str(DataUriImage),
   Obj([base64 |-> Str(DataUriImage)]), Obj([data |-> Str(DataUriImage)])}
Bodies == {Null, Obj([other |-> Num(1)])} \cup {Obj([image |-> x]) : x \in Images}
Events ==
  {[kind |-> "none", body |-> Undef], [kind |-> "badjson", body |-> Undef]}
    \cup {[kind |-> "json", body |-> b] : b \in Bodies}

Analyses ==
  {Null, ResultNoWeek(<<Entry(NameA, Vals(3))>>)}
    \cup {ResultNoData(w) : w \in Weeks}
    \cup {Result(Week0105, items) :
            items \in {<<>>, <<Entry(NameA, Vals(3))>>,
                       <<Entry(NameA, Vals(3)), Null>>,
                       <<Null, Entry(NameA, Vals(3))>>,
                       <<Entry(NameAB, Vals(MaxValuesLen)), Entry(NameA, BadValues)>>}}
    \cup {Result(Week0202, <<Entry(NameA, Vals(3))>>)}
GeminiOutcomes ==
  {[kind |-> k, analysis |-> Null] : k \in {"apiError", "noCandidates", "unparseable"}}
    \cup {[kind |-> "parsed", analysis |-> a] : a \in Analyses}
Envs ==
  [logFault : LogSites \cup {"none"}, catchFault : BOOLEAN, gemini : GeminiOutcomes]

\* grids for findFirstDateMatch alone
GridCells == {EmptyStr, Str(NameA), Jan5Noon, Jan6Midnight}
Grids == [1..MaxGridSide -> [1..MaxGridSide -> GridCells]]
Targets == {parseMmDdYyyy(Week0105.v), Jan5Late, InvalidDate}

(***************************************************************************)
(* State: the weekly grid, the Habit List sheet, and the invocation in     *)
(* progress: its input (call) and what it returned or threw (ret).         *)
(***************************************************************************)
NoCall == [op |-> "none", arg |-> Undef]
NoRet == [op |-> "none"]

Init ==
  /\ table \in WeeklyTables \cup {NoSheet}
  /\ habits \in HabitSheets
  /\ pc = "idle"
  /\ call = NoCall
  /\ ret = NoRet

\* what the caller sees of an invocation: all of it but the grid, which is table
Outcome(out) == [f \in DOMAIN out \ {"table"} |-> out[f]]

\* a POST request handled by doPost
DoPost ==
  /\ pc = "idle"
  /\ \E e \in Events, env \in Envs :
       LET out == doPost(e, env, table, habits)
       IN /\ call' = [op |-> "doPost", arg |-> e]
          /\ ret' = [op |-> "doPost", out |-> Outcome(out), before |-> table]
          /\ table' = out.table
  /\ pc' = "returned"
  /\ UNCHANGED habits

\* updateSheet called with one of the results of S
UpdateSheetOn(S) ==
  /\ pc = "idle"
  /\ \E data \in S :
       LET out == updateSheet(table, data)
       IN /\ call' = [op |-> "updateSheet", arg |-> data]
          /\ ret' = [op |-> "updateSheet", out |-> Outcome(out), before |-> table]
          /\ table' = out.table
  /\ pc' = "returned"
  /\ UNCHANGED habits

UpdateSheet == UpdateSheetOn(Results)

UpdateSheetSingle == UpdateSheetOn(SingleEntryResults)

\* the caller has the response; the next invocation may start
Return ==
  /\ pc = "returned"
  /\ pc' = "idle"
  /\ call' = NoCall
  /\ ret' = NoRet
  /\ UNCHANGED <<table, habits>>

Next == DoPost \/ Return

Spec == Init /\ [][Next]_vars

InitUpdate ==
  /\ table \in WeeklyTables
  /\ habits = <<"Habit Name", "a">>
  /\ pc = "idle"
  /\ call = NoCall
  /\ ret = NoRet

NextUpdate == UpdateSheet \/ UpdateSheetSingle \/ Return

SpecUpdate == InitUpdate /\ [][NextUpdate]_vars

(***************************************************************************)
(* Normalization alone: the same string s sent as {image: s},              *)
(* {image: {base64: s}} and {image: {data: s}}.                            *)
(***************************************************************************)
NotRun == [ok |-> FALSE, value |-> <<>>, err |-> Err("", "not run", "")]
Forms == {"bare", "base64", "data"}

InitNorm ==
  /\ table = NoSheet
  /\ habits = NoSheet
  /\ pc = "idle"
  /\ call \in {[op |-> "normalize", arg |-> Str(s)] : s \in ImageStrings}
  /\ ret = [op |-> "normalize", done |-> {}, bare |-> NotRun, base64 |-> NotRun, data |-> NotRun]

NormalizeBare ==
  /\ "bare" \notin ret.done
  /\ ret' = [ret EXCEPT !.done = @ \cup {"bare"},
                          !.bare = NormalizeImage(Get(Obj([image |-> call.arg]), "image"))]
  /\ UNCHANGED <<table, habits, pc, call>>

NormalizeBase64 ==
  /\ "base64" \notin ret.done
  /\ ret' = [ret EXCEPT !.done = @ \cup {"base64"},
                          !.base64 = NormalizeImage(Get(Obj([image |-> Obj([base64 |-> call.arg])]), "image"))]
  /\ UNCHANGED <<table, habits, pc, call>>

NormalizeData ==
  /\ "data" \notin ret.done
  /\ ret' = [ret EXCEPT !.done = @ \cup {"data"},
                          !.data = NormalizeImage(Get(Obj([image |-> Obj([data |-> call.arg])]), "image"))]
  /\ UNCHANGED <<table, habits, pc, call>>

NextNorm == NormalizeBare \/ NormalizeBase64 \/ NormalizeData

SpecNorm == InitNorm /\ [][NextNorm]_vars

(***************************************************************************)
(* findFirstDateMatch alone, over every small grid and target.             *)
(***************************************************************************)
InitLocate ==
  /\ table \in Grids
  /\ habits = NoSheet
  /\ pc = "idle"
  /\ call \in {[op |-> "findFirstDateMatch", arg |-> t] : t \in Targets}
  /\ ret = NoRet

Locate ==
  /\ pc = "idle"
  /\ ret' = [op |-> "findFirstDateMatch", out |-> findFirstDateMatch(table, call.arg)]
  /\ pc' = "returned"
  /\ UNCHANGED <<table, habits, call>>

NextLocate == Locate

SpecLocate == InitLocate /\ [][NextLocate]_vars

(***************************************************************************)
(* Properties.                                                             *)
(***************************************************************************)
LastUpdate == pc = "returned" /\ call.op = "updateSheet"
LastDoPost == pc = "returned" /\ call.op = "doPost"

\* a cell holds the target date at day granularity
HoldsDay(cell, target) ==
  /\ cell.t = "Date"
  /\ target.valid
  /\ cell.v \div HoursPerDay = target.v \div HoursPerDay

DayCells(grid, target) ==
  IF grid = NoSheet THEN {}
  ELSE {p \in {<<r, c>> : r \in 1..Len(grid), c \in 1..Len(grid[1])} :
          HoldsDay(grid[p[1]][p[2]], target)}

\* the week text of a result, and whether some cell of the grid holds it
WeekOf(data) == Get(data, "week_start_date")
HasWeekText(data) == Truthy(WeekOf(data)) /\ WeekOf(data).t = "string"
WeekInGrid(grid, data) ==
  HasWeekText(data) /\ DayCells(grid, parseMmDdYyyy(WeekOf(data).v)) # {}

\* the anchor row of a result whose week is in the grid
AnchorOf(grid, data) ==
  LET hits == DayCells(grid, parseMmDdYyyy(WeekOf(data).v))
  IN (CHOOSE p \in hits : \A o \in hits : ScansBefore(p, o))[1]

\* the entries of a result that name a habit the finder locates at or below
\* the anchor row, in the order of the list
IsFound(grid, data, e) ==
  e.t = "Object" /\ FindNext(grid, AnchorOf(grid, data), Len(grid), e.v.habit.v) # 0
FoundEntries(grid, data) ==
  LET Test(e) == IsFound(grid, data, e)
  IN SelectSeq(Get(data, "data").v, Test)

\* the values an entry gives: its array, or nothing when it has no values field
GivenValues(e) == IF "values" \in DOMAIN e.v THEN e.v.values.v ELSE <<>>

\* C1: a result whose week_start_date matches no date cell makes updateSheet
\* return, without throwing, the result string that names the week and the
\* sheet, and leaves every cell of the weekly grid as it was.
C1_UnmatchedWeekReturnsNotFound ==
  (LastUpdate /\ HasWeekText(call.arg) /\ ~WeekInGrid(ret.before, call.arg))
    => /\ ~ret.out.thrown
       /\ ret.out.result = NotFoundResp(WeekOf(call.arg), SHEET_NAME_WEEKLY)
       /\ table = ret.before

\* C2: every row written to the value window has exactly 7 elements: the
\* entry's values, cut to the first 7 or followed by nulls up to 7 (a missing
\* values field gives 7 nulls); the 7 cells of columns 3-9 of the row hold them.
C2_WrittenRowIsSevenWide ==
  LastUpdate =>
    \A k \in 1..Len(ret.out.writes) :
      LET w == ret.out.writes[k]
          given == GivenValues(FoundEntries(ret.before, call.arg)[k])
          lastToRow == \A j \in (k + 1)..Len(ret.out.writes) : ret.out.writes[j].row # w.row
      IN /\ Len(w.values) = WindowWidth
         /\ \A i \in 1..WindowWidth :
              w.values[i] = IF i <= Len(given) THEN given[i] ELSE Null
         /\ lastToRow =>
              \A i \in 1..WindowWidth :
                table[w.row][WindowFirstColumn + i - 1] =
                  IF w.values[i] = Null THEN EmptyStr ELSE w.values[i]
         /\ table[w.row][1] = ret.before[w.row][1]
         /\ table[w.row][2] = ret.before[w.row][2]

C2_Witness ==
  /\ LastUpdate
  /\ call.arg = Result(Week0105, <<Entry(NameA, Vals(3)), Entry(NameAB, Vals(MaxValuesLen))>>)
  /\ Len(ret.out.writes) = 2
  /\ ret.out.writes[1].values = <<Num(1), Num(2), Null, Null, Null, Null, Null>>
  /\ ret.out.writes[2].values = <<Num(1), Num(2), Null, Num(4), Num(5), Null, Num(7)>>
  /\ MaxValuesLen > WindowWidth

\* C3: once the week anchor is found, for every list of entries, every entry
\* whose habit name is found in the search window has its row written, whatever
\* the other entries are; the operation does not fail, and the count of the
\* summary is the number of entries whose name was found.
C3_EveryFoundEntryIsWritten ==
  (LastUpdate /\ WeekInGrid(ret.before, call.arg) /\ Get(call.arg, "data").t = "Array")
    => LET items == Get(call.arg, "data").v
           found == {i \in 1..Len(items) : IsFound(ret.before, call.arg, items[i])}
       IN /\ ~ret.out.thrown
          /\ \A i \in found :
               \E k \in 1..Len(ret.out.writes) :
                  ret.out.writes[k].row =
                    FindNext(ret.before, AnchorOf(ret.before, call.arg), Len(ret.before),
                             items[i].v.habit.v)
          /\ ret.out.result = SuccessResp(Cardinality(found), WeekOf(call.arg))

\* C4: no doPost invocation ends with an exception leaving doPost; every
\* failure is logged as doPost:ERROR and answered with a text beginning 'Error: '.
C4_NoFailureLeavesDoPost ==
  LastDoPost =>
    /\ ~ret.out.propagated
    /\ ret.out.err # NoErr =>
         /\ ret.out.resp = CaughtResp(ret.out.err)
         /\ ret.out.log[Len(ret.out.log)] = "doPost:ERROR"

\* a thrown failure ended the request; the catch block answers 'Error: ' with
\* it unless its own log_ call throws
EndsInThrownFailure ==
  /\ ret.out.err # NoErr
  /\ ~ret.out.propagated => ret.out.resp = CaughtResp(ret.out.err)

LacksWeek(a) == WeekOf(a) \in {Undef, Null}
LacksData(a) == Get(a, "data") \in {Undef, Null}

\* C5 as stated: a result lacking week_start_date or data ends the request in
\* a thrown failure, whatever the weekly grid holds.
C5_MissingFieldIsFatal ==
  (LastDoPost /\ ret.out.analysis # Undef
     /\ (LacksWeek(ret.out.analysis) \/ LacksData(ret.out.analysis)))
    => EndsInThrownFailure

\* C5 amended: a result lacking week_start_date always ends the request in a
\* thrown failure; a result lacking data does so when its week is found in the
\* grid or does not parse to a date (or the weekly sheet is missing), and no
\* cell is modified; when its week is a date no cell of the weekly sheet holds,
\* updateSheet throws nothing and returns the not-found result string.
C5_MissingFieldFatalUnlessWeekUnmatched ==
  (LastDoPost /\ ret.out.analysis # Undef)
    => LET a == ret.out.analysis
           unmatched == /\ ret.before # NoSheet
                        /\ HasWeekText(a)
                        /\ parseMmDdYyyy(WeekOf(a).v).valid
                        /\ ~WeekInGrid(ret.before, a)
       IN /\ LacksWeek(a) => (EndsInThrownFailure /\ table = ret.before)
          /\ (LacksData(a) /\ ~unmatched) => (EndsInThrownFailure /\ table = ret.before)
          /\ (LacksData(a) /\ unmatched /\ ret.out.err.name # "Exception")
               => /\ ret.out.err = NoErr
                  /\ ret.out.resp = NotFoundResp(WeekOf(a), SHEET_NAME_WEEKLY)
                  /\ table = ret.before

C5_Witness ==
  /\ LastDoPost
  /\ ret.out.analysis = ResultNoData(Week0105)
  /\ WeekInGrid(ret.before, ret.out.analysis)
  /\ ret.out.err.name = "TypeError"
  /\ ret.out.resp = CaughtResp(ret.out.err)

AllFormsRun == call.op = "normalize" /\ ret.done = Forms

\* C6 as stated: for every string s the three bodies {image: s},
\* {image: {base64: s}} and {image: {data: s}} normalize to the same outcome.
C6_SameOutcomeForEveryString ==
  AllFormsRun => (ret.bare = ret.base64 /\ ret.bare = ret.data)

\* C6 amended: for every non-empty string s the three bodies normalize to the
\* same string, s without a leading data:image/<subtype>;base64, prefix and
\* without surrounding whitespace.
C6_SameOutcomeForNonEmptyString ==
  (AllFormsRun /\ call.arg.v # <<>>)
    => /\ ret.bare.ok
       /\ ret.bare = ret.base64
       /\ ret.bare = ret.data
       /\ \A k \in 1..Len(call.arg.v) :
            LET s == call.arg.v
            IN (/\ s[1] = "data:image/"
                /\ k > 2
                /\ s[k] = ";base64,"
                /\ \A j \in 2..(k - 1) : s[j] \in SubtypeChars)
               => ret.bare.value = Trim(SubSeq(s, k + 1, Len(s)))
       /\ (call.arg.v[1] # "data:image/") => ret.bare.value = Trim(call.arg.v)

C6_Witness ==
  /\ AllFormsRun
  /\ call.arg = Str(<<"data:image/", "A", ";base64,", "=">>)
  /\ ret.bare.ok
  /\ ret.data.value = <<"=">>
  /\ ret.base64.value = <<"=">>

\* C7: an image that is not a string after unwrapping fails with the error
\* 'base64Image has wrong type: <type> instead of string', and the model is
\* never called.
C7_NonStringImageIsInvalidPayload ==
  (LastDoPost /\ call.arg.kind = "json" /\ call.arg.body.t = "Object"
     /\ ret.out.err.name # "Exception")
    => LET img == Get(call.arg.body, "image")
           unwrapped ==
             IF img.t \in {"Object", "Array"}
             THEN IF Truthy(Get(img, "base64")) THEN Get(img, "base64")
                  ELSE IF Truthy(Get(img, "data")) THEN Get(img, "data")
                  ELSE Null
             ELSE img
       IN unwrapped.t # "string"
            => /\ ret.out.err =
                    Err("Error", "base64Image has wrong type: instead of string", getType(unwrapped))
               /\ ~ret.out.geminiCalled

\* C8: findFirstDateMatch returns the 1-based row and column of the first
\* cell in row-major order that holds the target date at day granularity,
\* and null exactly when no cell does.
C8_FirstMatchInRowMajorOrder ==
  (pc = "returned" /\ call.op = "findFirstDateMatch")
    => LET hits == DayCells(table, call.arg)
       IN /\ (ret.out = Null) <=> (hits = {})
          /\ ret.out # Null =>
               /\ <<ret.out.v.row, ret.out.v.column>> \in hits
               /\ \A o \in hits :
                    \/ o[1] > ret.out.v.row
                    \/ (o[1] = ret.out.v.row /\ o[2] >= ret.out.v.column)

C8_Witness ==
  /\ pc = "returned"
  /\ call.op = "findFirstDateMatch"
  /\ call.arg = Jan5Late
  /\ table[1][1] = Jan6Midnight
  /\ table[1][2] = Jan5Noon
  /\ table[2][1] = Jan5Noon
  /\ ret.out = Obj([row |-> 1, column |-> 2])

\* C9: each row written is the first row, from the anchor row down, whose
\* label is exactly the entry's habit name (not a label that contains the name
\* or differs in case), and no row above the anchor row is written.
C9_WrittenRowHasExactLabel ==
  LastUpdate =>
    \A k \in 1..Len(ret.out.writes) :
      LET w == ret.out.writes[k]
          e == FoundEntries(ret.before, call.arg)[k]
          anchor == AnchorOf(ret.before, call.arg)
          exact == {r \in anchor..Len(ret.before) : ret.before[r][1] = e.v.habit}
      IN /\ w.row >= anchor
         /\ w.row \in exact
         /\ \A r \in exact : w.row <= r

\* C10: a doPost that answers 'Error: ...' has modified no cell of the weekly
\* grid (log_ not being what failed).
C10_ErrorResponseMeansNoWrite ==
  (LastDoPost /\ ~ret.out.propagated /\ ret.out.resp.pre = "Error: "
     /\ ret.out.err.name # "Exception")
    => table = ret.before

=============================================================================
